---- MODULE Spec2Model ----
(***************************************************************************)
(* A model of nf_core/lint/__init__.py: run_linting and the PipelineLint   *)
(* object (construction, lint config loading, the check loop with its      *)
(* critical-abort path, and the console / Markdown / JSON renderers).      *)
(*                                                                         *)
(* Python values are modelled as follows.  A string that the code slices   *)
(* or scans (a commit hash, a result message) is a sequence: of one-letter *)
(* strings for hashes, of character codes for messages.  A value loaded    *)
(* from YAML is a record [kind, map]; the values of an override mapping    *)
(* are tags such as "False", "True" and "None".  The check bodies live     *)
(* outside this file, so one call of a check is a choice among the things  *)
(* a call can do: return a result, raise AssertionError, raise another     *)
(* exception.                                                              *)
(***************************************************************************)
EXTENDS Integers, Sequences, FiniteSets, TLC

VARIABLES
    pc,               \* position inside run_linting
    release_mode_arg, \* run_linting argument release_mode
    md_fn,            \* run_linting argument md_fn is not None
    json_fn,          \* run_linting argument json_fn is not None
    environ,          \* os.environ.get("GITHUB_PR_COMMIT", "")
    repo_head,        \* HEAD hash of git.Repo(path), NoSha when it cannot be read
    yml_file,         \* <path>/.nf-core-lint.yml
    yaml_file,        \* <path>/.nf-core-lint.yaml
    release_mode,     \* self.release_mode
    lint_tests,       \* self.lint_tests
    git_sha,          \* self.git_sha
    lint_config,      \* self.lint_config
    passed,           \* self.passed
    warned,           \* self.warned
    failed,           \* self.failed
    ignored,          \* self.ignored
    idx,              \* position of the for loop of _lint_pipeline in lint_tests
    calls,            \* call spy: the checks invoked so far, with what each call did
    log,              \* records written to the logger (warnings and the records of run_linting)
    console,          \* tables printed by _print_results
    md_file,          \* content written to md_fn
    json_file,        \* content written to json_fn
    clock,            \* the values the next calls of datetime.datetime.now() return
    returned,         \* how run_linting ended: "none", "lint_obj" or "exception"
    exc,              \* class of the exception that left run_linting
    raw,              \* the string given to a direct call of _strip_ansi_codes
    stripped          \* what _strip_ansi_codes and the renderers made of raw

vars == <<pc, raw, stripped, release_mode_arg, md_fn, json_fn, environ, repo_head, yml_file,
          yaml_file, release_mode, lint_tests, git_sha, lint_config, passed,
          warned, failed, ignored, idx, calls, log, console, md_file, json_file,
          clock, returned, exc>>

\* ------------------------------------------------------------------ bounds
\* Findings (passed + warned + failed entries) that the checks of one run return.
MaxEntries == 2

\* ------------------------------------------------------------ Python values
\* None, for self.git_sha.
NoSha == <<>>
\* {} : the dict without keys.
EmptyMap == [k \in {} |-> "None"]
EmptyDict == [kind |-> "dict", map |-> EmptyMap]
\* A file that does not exist.
Absent == [kind |-> "absent", map |-> EmptyMap]
\* A file whose text yaml.safe_load rejects (yaml.YAMLError).
Unparseable == [kind |-> "unparseable", map |-> EmptyMap]
\* An empty file: yaml.safe_load returns None.
EmptyFile == [kind |-> "none", map |-> EmptyMap]
\* A file holding a YAML list of the given items.
ListFile(items) == [kind |-> "list", map |-> items]
\* A file holding a YAML mapping.
DictFile(m) == [kind |-> "dict", map |-> m]

Range(s) == {s[i] : i \in DOMAIN s}

\* dict.get(key) with the default None.
DictGet(d, key) == IF key \in DOMAIN d.map THEN d.map[key] ELSE "None"

\* What `for k in value` iterates over: the keys of a dict, the items of a list.
IterKeys(v) == IF v.kind = "list" THEN Range(v.map) ELSE DOMAIN v.map

\* ---------------------------------------------------------- PipelineLint()
NormalTests ==
    << "files_exist", "licence", "docker", "nextflow_config",
       "actions_branch_protection", "actions_ci", "actions_lint",
       "actions_awstest", "actions_awsfulltest", "readme", "conda_env_yaml",
       "conda_dockerfile", "pipeline_todos", "pipeline_name_conventions",
       "cookiecutter_strings", "schema_lint", "schema_params" >>

ReleaseTests == << "version_consistency" >>

\* self.lint_tests as __init__ builds it from the flag it is given.
LintTests(flag) == IF flag THEN NormalTests \o ReleaseTests ELSE NormalTests

\* Faulty variant: the hash of HEAD wins over the environment variable.
ResolveGitShaHeadFirst(env, head) == IF head # <<>> THEN head ELSE env

\* self.git_sha after __init__: HEAD when readable, overwritten by the
\* environment variable when that is not the empty string.
ResolveGitSha(env, head) == IF env # <<>> THEN env ELSE head

\* __init__ after the field defaults of lines 163-179, which Init holds.  The
\* release_mode parameter is not stored: the list is built from the field.
PipelineLint_init ==
    /\ pc = "init"
    /\ lint_tests' = LintTests(release_mode)
    /\ git_sha' = ResolveGitSha(environ, repo_head)
    /\ pc' = "parse_lint_config"
    /\ UNCHANGED <<raw, stripped, release_mode_arg, md_fn, json_fn, environ, repo_head,
                   yml_file, yaml_file, release_mode, lint_config, passed,
                   warned, failed, ignored, idx, calls, log, console, md_file,
                   json_file, clock, returned, exc>>

\* An exception leaves run_linting: nothing further runs.
Propagate(class) ==
    /\ pc' = "done"
    /\ returned' = "exception"
    /\ exc' = class

\* ----------------------------------------------------- _parse_lint_config
\* Faulty variant: the .yaml file is looked for first.
ConfigFileYamlFirst == IF yaml_file.kind # "absent" THEN yaml_file ELSE yml_file


\* The file that open() is given: .yml when it is a file, else .yaml.
ConfigFile == IF yml_file.kind # "absent" THEN yml_file ELSE yaml_file

\* Faulty variant: keys that match no check are passed over in silence.
UnrecognisedSilent(v) == {}


\* The warnings of the loop over the keys of the loaded value.
UnrecognisedWarnings(v) ==
    {[level |-> "warn", msg |-> "unrecognised test name", arg |-> k] :
        k \in {x \in IterKeys(v) : x \notin Range(lint_tests)}}

_parse_lint_config ==
    /\ pc = "parse_lint_config"
    /\ CASE ConfigFile.kind = "absent" ->
              \* FileNotFoundError is caught; the loop runs over the empty dict
              /\ lint_config' = lint_config
              /\ log' = log \cup {[level |-> "debug", msg |-> "no lint config file", arg |-> ""]}
                            \cup UnrecognisedWarnings(lint_config)
              /\ pc' = "get_pipeline_config"
              /\ UNCHANGED <<returned, exc>>
         [] ConfigFile.kind = "unparseable" ->
              \* yaml.safe_load raises; only FileNotFoundError is caught
              /\ Propagate("YAMLError")
              /\ UNCHANGED <<lint_config, log>>
         [] ConfigFile.kind = "none" ->
              \* self.lint_config = None, then `for k in None` raises
              /\ lint_config' = [kind |-> "none", map |-> EmptyMap]
              /\ Propagate("TypeError")
              /\ UNCHANGED log
         [] OTHER ->
              /\ lint_config' = [kind |-> ConfigFile.kind, map |-> ConfigFile.map]
              /\ log' = log \cup UnrecognisedWarnings(lint_config')
              /\ pc' = "get_pipeline_config"
              /\ UNCHANGED <<returned, exc>>
    /\ UNCHANGED <<raw, stripped, release_mode_arg, md_fn, json_fn, environ, repo_head,
                   yml_file, yaml_file, release_mode, lint_tests, git_sha,
                   passed, warned, failed, ignored, idx, calls, console,
                   md_file, json_file, clock>>

\* ---------------------------------------------------- _get_pipeline_config
\* self.config is read by the check bodies only.
_get_pipeline_config ==
    /\ pc = "get_pipeline_config"
    /\ pc' = "lint_pipeline"
    /\ UNCHANGED <<raw, stripped, release_mode_arg, md_fn, json_fn, environ, repo_head,
                   yml_file, yaml_file, release_mode, lint_tests, git_sha,
                   lint_config, passed, warned, failed, ignored, idx, calls,
                   log, console, md_file, json_file, clock, returned, exc>>

\* ------------------------------------------------------------ the checks
\* The keys of the dict a check returns.
Keys == {"passed", "warned", "failed"}

\* The text of the j-th finding a check returns, as character codes ("a",
\* "b", ...); the second one is coloured: ESC [ 1 m b.
Message(j) == IF j = 2 THEN <<27, 91, 49, 109, 98>> ELSE <<96 + j>>

RECURSIVE Emitted(_, _, _)
\* The findings that a check files under `key`, when its j-th, (j+1)-th, ...
\* findings go to the keys bs[j], bs[j+1], ...
Emitted(bs, key, j) ==
    IF j > Len(bs) THEN <<>>
    ELSE (IF bs[j] = key THEN <<Message(j)>> ELSE <<>>) \o Emitted(bs, key, j + 1)

\* The dict returned by a check with the findings bs.  A key without findings
\* is absent from the dict.
ResultOf(bs) == [key \in Range(bs) |-> Emitted(bs, key, 1)]

\* The results a check can return with at most n findings.
Results(n) == {ResultOf(bs) : bs \in UNION {[1..k -> Keys] : k \in 0..n}}

\* What one call of a check can do.
Outcomes(n) ==
    {[kind |-> "returned", result |-> r] : r \in Results(n)}
    \cup {[kind |-> "AssertionError", result |-> ResultOf(<<>>)],
          [kind |-> "Exception", result |-> ResultOf(<<>>)]}

\* --------------------------------------------------------- _lint_pipeline
\* test_results.get(key, [])
ResultGet(test_results, key) ==
    IF key \in DOMAIN test_results THEN test_results[key] ELSE <<>>

\* [(fun_name, test) for test in tests]
Tagged(fun_name, tests) == [i \in DOMAIN tests |-> <<fun_name, tests[i]>>]

\* Faulty variant: the loop steps over an element of self.lint_tests.
NextCheckSkipsOne ==
    /\ idx' = idx + 2
    /\ pc' = IF idx + 2 > Len(lint_tests) THEN "print_results" ELSE "lint_pipeline"
    /\ UNCHANGED <<returned, exc, log>>

\* The for loop moves to the next element of self.lint_tests, or ends.
NextCheck ==
    /\ idx' = idx + 1
    /\ pc' = IF idx + 1 > Len(lint_tests) THEN "print_results" ELSE "lint_pipeline"
    /\ UNCHANGED <<returned, exc, log>>

\* Faulty variant: the skipped check is not recorded.
SkipNotRecorded(fun_name) ==
    /\ UNCHANGED <<ignored, passed, warned, failed, calls>>
    /\ NextCheck

\* Faulty variant: the `continue` is missing, the skipped check runs all the same.
SkipFallsThrough(fun_name) ==
    /\ ignored' = Append(ignored, <<fun_name, fun_name>>)
    /\ calls' = Append(calls, [name |-> fun_name, kind |-> "returned",
                               result |-> ResultOf(<<"passed">>)])
    /\ passed' = passed \o Tagged(fun_name, <<Message(1)>>)
    /\ UNCHANGED <<warned, failed>>
    /\ NextCheck

\* Lines 287-290: the check is skipped.
Skip(fun_name) ==
    /\ ignored' = Append(ignored, <<fun_name, fun_name>>)
    /\ UNCHANGED <<passed, warned, failed, calls>>
    /\ NextCheck

\* Faulty variant: the findings of a check replace what the buckets held.
DistributeOverwrites(fun_name, test_results) ==
    /\ passed' = Tagged(fun_name, ResultGet(test_results, "passed"))
    /\ warned' = Tagged(fun_name, ResultGet(test_results, "warned"))
    /\ failed' = Tagged(fun_name, ResultGet(test_results, "failed"))
    /\ UNCHANGED ignored

\* Faulty variant: the findings are put in front of the bucket.
DistributeInFront(fun_name, test_results) ==
    /\ passed' = Tagged(fun_name, ResultGet(test_results, "passed")) \o passed
    /\ warned' = Tagged(fun_name, ResultGet(test_results, "warned")) \o warned
    /\ failed' = Tagged(fun_name, ResultGet(test_results, "failed")) \o failed
    /\ UNCHANGED ignored

\* Lines 294-299: the findings of a returned result go to the buckets.
Distribute(fun_name, test_results) ==
    /\ passed' = passed \o Tagged(fun_name, ResultGet(test_results, "passed"))
    /\ warned' = warned \o Tagged(fun_name, ResultGet(test_results, "warned"))
    /\ failed' = failed \o Tagged(fun_name, ResultGet(test_results, "failed"))
    /\ UNCHANGED ignored

\* Faulty variant: AssertionError is swallowed inside the loop, which goes on.
CriticalGoesOn == NextCheck

\* Faulty variant: the handler logs and does not return; run_linting goes
\* on to the renderers.
CriticalThenRenders ==
    /\ pc' = "print_results"
    /\ log' = log \cup {[level |-> "critical", msg |-> "Critical error", arg |-> ""],
                        [level |-> "info", msg |-> "Stopping tests...", arg |-> ""]}
    /\ UNCHANGED <<idx, returned, exc>>


\* The check raised AssertionError: _lint_pipeline is left, run_linting
\* catches it (lines 53-56), logs and returns the lint object.
Critical ==
    /\ pc' = "done"
    /\ returned' = "lint_obj"
    /\ log' = log \cup {[level |-> "critical", msg |-> "Critical error", arg |-> ""],
                        [level |-> "info", msg |-> "Stopping tests...", arg |-> ""]}
    /\ UNCHANGED <<idx, exc>>

\* The check raised something else: no handler in _lint_pipeline or
\* run_linting matches it.
Uncaught(class) ==
    /\ Propagate(class)
    /\ UNCHANGED <<idx, log>>

\* Faulty variant: a check that raises is given a failed entry of its own
\* before the exception goes on.
InvokeRecordsRaise(fun_name, o) ==
    /\ calls' = Append(calls, [name |-> fun_name, kind |-> o.kind, result |-> o.result])
    /\ CASE o.kind = "returned" ->
              Distribute(fun_name, o.result) /\ NextCheck
         [] o.kind = "AssertionError" ->
              /\ Critical
              /\ failed' = Append(failed, <<fun_name, Message(1)>>)
              /\ UNCHANGED <<passed, warned, ignored>>
         [] OTHER ->
              /\ Uncaught(o.kind)
              /\ failed' = Append(failed, <<fun_name, Message(1)>>)
              /\ UNCHANGED <<passed, warned, ignored>>


\* Line 293 and what follows it, for one thing the call can do.
Invoke(fun_name, o) ==
    /\ calls' = Append(calls, [name |-> fun_name, kind |-> o.kind, result |-> o.result])
    /\ CASE o.kind = "returned" ->
              Distribute(fun_name, o.result) /\ NextCheck
         [] o.kind = "AssertionError" ->
              Critical /\ UNCHANGED <<passed, warned, failed, ignored>>
         [] OTHER ->
              Uncaught(o.kind) /\ UNCHANGED <<passed, warned, failed, ignored>>

\* Faulty variant: the override value is compared with == False, which 0
\* satisfies too.
IsSkippedWhenEqualFalse(fun_name) ==
    DictGet(lint_config, fun_name) \in {"False", "0"}


\* Line 287: self.lint_config.get(fun_name) is False
IsSkipped(fun_name) == DictGet(lint_config, fun_name) = "False"

\* Findings the checks of this run can still return.
Budget == MaxEntries - (Len(passed) + Len(warned) + Len(failed))

\* One iteration of the for loop of _lint_pipeline.
_lint_pipeline ==
    /\ pc = "lint_pipeline"
    /\ LET fun_name == lint_tests[idx] IN
         IF lint_config.kind # "dict"
         THEN \* a list has no .get
              /\ Uncaught("AttributeError")
              /\ UNCHANGED <<passed, warned, failed, ignored, calls>>
         ELSE IF IsSkipped(fun_name)
         THEN Skip(fun_name)
         ELSE \E o \in Outcomes(Budget) : Invoke(fun_name, o)
    /\ UNCHANGED <<raw, stripped, release_mode_arg, md_fn, json_fn, environ, repo_head,
                   yml_file, yaml_file, release_mode, lint_tests, git_sha,
                   lint_config, console, md_file, json_file, clock>>

\* ------------------------------------------------------ _strip_ansi_codes
\* \x1B
ESC == 27

\* [@-Z\\-_] : the second character of a two-character escape.
IsFe(c) == c \in 64..90 \/ c \in 92..95

RECURSIVE SkipClass(_, _, _, _)
\* The first position from j on whose character is not in lo..hi: the greedy
\* star of a character class.  The three classes of the pattern are disjoint,
\* so giving characters back never turns a failed match into a match.
SkipClass(s, j, lo, hi) ==
    IF j <= Len(s) /\ s[j] \in lo..hi THEN SkipClass(s, j + 1, lo, hi) ELSE j

\* The length of the match of the pattern at position i of s, 0 when there
\* is none:  \x1B(?:[@-Z\\-_]|\[[0-?]*[ -/]*[@-~])
MatchLen(s, i) ==
    IF s[i] # ESC \/ i + 1 > Len(s) THEN 0
    ELSE IF IsFe(s[i + 1]) THEN 2
    ELSE IF s[i + 1] # 91 THEN 0
    ELSE LET j == SkipClass(s, SkipClass(s, i + 2, 48, 63), 32, 47) IN
           IF j <= Len(s) /\ s[j] \in 64..126 THEN j - i + 1 ELSE 0

RECURSIVE SubFrom(_, _, _)
\* re.sub from position i on: matches are found left to right, without
\* overlap, in the original string.
SubFrom(s, replace_with, i) ==
    IF i > Len(s) THEN <<>>
    ELSE IF MatchLen(s, i) > 0
         THEN replace_with \o SubFrom(s, replace_with, i + MatchLen(s, i))
         ELSE <<s[i]>> \o SubFrom(s, replace_with, i + 1)

_strip_ansi_codes(string, replace_with) == SubFrom(string, replace_with, 1)

\* "`", the replacement the Markdown renderer passes.
Backtick == <<96>>

\* -------------------------------------------------------- _get_results_md
\* "* [eid](https://nf-co.re/errors#eid) - msg" for each entry.  The message
\* of an ignored entry is the name of the check, which holds no escape.
Bullets(bucket, isNames) ==
    [i \in DOMAIN bucket |->
        [eid |-> bucket[i][1],
         msg |-> IF isNames THEN bucket[i][2]
                 ELSE _strip_ansi_codes(bucket[i][2], Backtick)]]

\* Faulty variant: a line is written for an empty bucket too.
CountLineAlways(bucket, glyph, text) ==
    <<[glyph |-> glyph, n |-> Len(bucket), text |-> text]>>


\* One line of the diff block, "" when the bucket is empty.
CountLine(bucket, glyph, text) ==
    IF Len(bucket) > 0
    THEN <<[glyph |-> glyph, n |-> Len(bucket), text |-> text]>>
    ELSE <<>>

\* One section of the details, "" when the bucket is empty.
Section(bucket, title, isNames) ==
    IF Len(bucket) > 0
    THEN <<[title |-> title, bullets |-> Bullets(bucket, isNames)]>>
    ELSE <<>>

\* Faulty variant: the whole hash is shown.
WholeSha(sha) == sha


\* self.git_sha[:7]
First7(sha) == SubSeq(sha, 1, IF Len(sha) < 7 THEN Len(sha) ELSE 7)

\* Faulty variant: the verdict is taken from the warnings.
OverallResultOfWarned ==
    IF Len(warned) > 0 THEN "Failed :x:" ELSE "Passed :white_check_mark:"

\* Lines 372-374.
OverallResult ==
    IF Len(failed) > 0 THEN "Failed :x:" ELSE "Passed :white_check_mark:"

\* The Markdown document, field by field of the format string; now is the
\* value datetime.datetime.now() returns at line 429.
_get_results_md(now) ==
    [overall_result |-> OverallResult,
     commit |-> IF git_sha # NoSha THEN <<First7(git_sha)>> ELSE <<>>,
     counts |-> CountLine(passed, "+", "tests passed")
                \o CountLine(ignored, "#", "tests had warnings")
                \o CountLine(warned, "!", "tests had warnings")
                \o CountLine(failed, "-", "tests failed"),
     details |-> Section(failed, ":x: Test failures:", FALSE)
                 \o Section(warned, ":heavy_exclamation_mark: Test warnings:", FALSE)
                 \o Section(ignored, ":grey_question: Tests ignored:", TRUE)
                 \o Section(passed, ":white_check_mark: Tests passed:", FALSE),
     run_at |-> now]

\* ------------------------------------------------------ _save_json_results
\* [[idx, self._strip_ansi_codes(msg)] for idx, msg in bucket]
JsonPairs(bucket, isNames) ==
    [i \in DOMAIN bucket |->
        <<bucket[i][1],
          IF isNames THEN bucket[i][2] ELSE _strip_ansi_codes(bucket[i][2], <<>>)>>]

\* The dict that is dumped; now is the clock value read at line 472 and
\* mdnow the one read by the nested call of _get_results_md.
JsonResults(now, mdnow) ==
    [date_run |-> now,
     tests_pass |-> JsonPairs(passed, FALSE),
     tests_ignored |-> JsonPairs(ignored, TRUE),
     tests_warned |-> JsonPairs(warned, FALSE),
     tests_failed |-> JsonPairs(failed, FALSE),
     num_tests_pass |-> Len(passed),
     num_tests_ignored |-> Len(ignored),
     num_tests_warned |-> Len(warned),
     num_tests_failed |-> Len(failed),
     has_tests_pass |-> Len(passed) > 0,
     has_tests_warned |-> Len(warned) > 0,
     has_tests_failed |-> Len(failed) > 0,
     markdown_result |-> _get_results_md(mdnow)]

\* --------------------------------------------------------- _print_results
\* One table with the rows of a bucket, printed when `shown`.
Table(bucket, name, shown) ==
    IF Len(bucket) > 0 /\ shown
    THEN <<[table |-> name, n |-> Len(bucket), rows |-> Len(bucket)]>>
    ELSE <<>>

\* The tables printed, in order, and the summary table last.
PrintedTables(show_passed) ==
    Table(passed, "passed", show_passed)
    \o Table(ignored, "ignored", TRUE)
    \o Table(warned, "warned", TRUE)
    \o Table(failed, "failed", TRUE)
    \o <<[table |-> "summary",
          n |-> Len(passed) + Len(ignored) + Len(warned) + Len(failed),
          rows |-> 4]>>

\* ------------------------------------------------------------- run_linting
\* Line 59.  show_passed is the argument of run_linting.
_print_results ==
    /\ pc = "print_results"
    /\ \E show_passed \in BOOLEAN : console' = PrintedTables(show_passed)
    /\ pc' = "save_md"
    /\ UNCHANGED <<raw, stripped, release_mode_arg, md_fn, json_fn, environ, repo_head,
                   yml_file, yaml_file, release_mode, lint_tests, git_sha,
                   lint_config, passed, warned, failed, ignored, idx, calls,
                   log, md_file, json_file, clock, returned, exc>>

\* Lines 62-66.
SaveMarkdown ==
    /\ pc = "save_md"
    /\ IF md_fn
       THEN /\ md_file' = <<_get_results_md(Head(clock))>>
            /\ clock' = Tail(clock)
       ELSE UNCHANGED <<md_file, clock>>
    /\ pc' = "save_json"
    /\ UNCHANGED <<raw, stripped, release_mode_arg, md_fn, json_fn, environ, repo_head,
                   yml_file, yaml_file, release_mode, lint_tests, git_sha,
                   lint_config, passed, warned, failed, ignored, idx, calls,
                   log, console, json_file, returned, exc>>

\* Lines 69-70.
_save_json_results ==
    /\ pc = "save_json"
    /\ IF json_fn
       THEN /\ json_file' = <<JsonResults(clock[1], clock[2])>>
            /\ clock' = Tail(Tail(clock))
       ELSE UNCHANGED <<json_file, clock>>
    /\ pc' = "exit_code"
    /\ UNCHANGED <<raw, stripped, release_mode_arg, md_fn, json_fn, environ, repo_head,
                   yml_file, yaml_file, release_mode, lint_tests, git_sha,
                   lint_config, passed, warned, failed, ignored, idx, calls,
                   log, console, md_file, returned, exc>>

\* What the caller reads off the returned object to choose the exit status.
FailureSignal == Len(failed) > 0

\* Lines 72-77.
ReturnLintObj ==
    /\ pc = "exit_code"
    /\ log' = IF Len(failed) > 0 /\ release_mode_arg
              THEN log \cup {[level |-> "info", msg |-> "Reminder: --release mode", arg |-> ""]}
              ELSE log
    /\ returned' = "lint_obj"
    /\ pc' = "done"
    /\ UNCHANGED <<raw, stripped, release_mode_arg, md_fn, json_fn, environ, repo_head,
                   yml_file, yaml_file, release_mode, lint_tests, git_sha,
                   lint_config, passed, warned, failed, ignored, idx, calls,
                   console, md_file, json_file, clock, exc>>

Next ==
    \/ PipelineLint_init
    \/ _parse_lint_config
    \/ _get_pipeline_config
    \/ _lint_pipeline
    \/ _print_results
    \/ SaveMarkdown
    \/ _save_json_results
    \/ ReturnLintObj

\* ------------------------------------------------------------ the inputs
\* Commit hashes, longer than the 7 characters the report shows.
ShaA == <<"a", "b", "c", "1", "2", "3", "4", "5", "6">>
ShaD == <<"d", "e", "f", "5", "6", "7", "8", "9", "0">>

\* The wall clock as the run reads it: at most three times (lines 429, 472
\* and 429 again, from line 487), each read no earlier than the one before.
\* The renderers keep the second of the clock (strftime "%S").
ClockReads == {<<0, 0, 0>>, <<0, 0, 1>>, <<0, 1, 1>>, <<0, 1, 2>>}
\* A run that renders within one second.
FrozenClock == <<0, 0, 0>>

\* The state at the entry of run_linting, with the field defaults that
\* __init__ sets at lines 163-179.
InitObject ==
    /\ pc = "init"
    /\ release_mode = FALSE
    /\ lint_tests = <<>>
    /\ git_sha = NoSha
    /\ lint_config = EmptyDict
    /\ passed = <<>>
    /\ warned = <<>>
    /\ failed = <<>>
    /\ ignored = <<>>
    /\ idx = 1
    /\ calls = <<>>
    /\ log = {}
    /\ console = <<>>
    /\ md_file = <<>>
    /\ json_file = <<>>
    /\ returned = "none"
    /\ exc = "none"
    /\ raw = <<>>
    /\ stripped = <<>>

\* An override mapping that skips the first and the last check of normal
\* mode and gives a third one a value that is not False.
SkipEnds ==
    [k \in {"files_exist", "schema_params", "licence"} |->
        IF k = "licence" THEN "True" ELSE "False"]

\* An override mapping that skips a check in the middle and names the
\* release-only check and a name that is no check at all.
SkipMiddle ==
    [k \in {"docker", "version_consistency", "no_such_test"} |-> "False"]

\* The state at the entry of run_linting for the given sets of inputs.
InitWith(releases, outs, envs, heads, ymls, yamls, clocks) ==
    /\ InitObject
    /\ release_mode_arg \in releases
    /\ md_fn \in outs
    /\ json_fn \in outs
    /\ environ \in envs
    /\ repo_head \in heads
    /\ yml_file \in ymls
    /\ yaml_file \in yamls
    /\ clock \in clocks

\* Runs over the contents of the override file .nf-core-lint.yml.
Init ==
    InitWith({FALSE}, {TRUE}, {<<>>}, {ShaD},
             {Absent, Unparseable, EmptyFile, ListFile(<<"files_exist">>),
              DictFile(SkipEnds), DictFile(SkipMiddle)},
             {Absent}, {FrozenClock})

Spec == Init /\ [][Next]_vars

\* Runs over the environment variable and the state of the repository.
InitIdentity ==
    InitWith({FALSE}, {TRUE}, {<<>>, ShaA}, {NoSha, ShaD},
             {Absent}, {Absent}, {FrozenClock})

SpecIdentity == InitIdentity /\ [][Next]_vars

\* Runs over the output paths that run_linting is given.
InitOutputs ==
    InitWith({FALSE}, BOOLEAN, {<<>>}, {ShaD},
             {DictFile(SkipMiddle)}, {Absent}, {FrozenClock})

SpecOutputs == InitOutputs /\ [][Next]_vars

\* Runs in normal mode and in release mode.
InitRelease ==
    InitWith(BOOLEAN, {TRUE}, {<<>>}, {ShaD},
             {Absent, DictFile(SkipMiddle)}, {Absent}, {FrozenClock})

SpecRelease == InitRelease /\ [][Next]_vars

\* Runs over what the wall clock returns at its successive reads.
InitClock ==
    InitWith({FALSE}, {TRUE}, {<<>>}, {ShaD},
             {Absent}, {Absent}, ClockReads)

SpecClock == InitClock /\ [][Next]_vars

\* ------------------------------------- _strip_ansi_codes called directly
\* The longest string given to _strip_ansi_codes.
MaxLen == 5

\* The characters of the strings: \x1B, "[", a parameter byte "1", a final
\* byte "m", and "M", which is a final byte and also the second character
\* of a two-character escape.
StripChars == {ESC, 91, 49, 109, 77}

\* The strings of at most n characters.
Strings(n) == UNION {[1..k -> StripChars] : k \in 0..n}

\* One string handed to the function and to the two renderers, as the
\* message of an entry of a bucket.
StripAnsiCodes ==
    /\ pc = "strip"
    /\ pc' = "stripped"
    /\ stripped' =
         <<[once |-> _strip_ansi_codes(raw, <<>>),
            twice |-> _strip_ansi_codes(_strip_ansi_codes(raw, <<>>), <<>>),
            md |-> Bullets(<<<<"files_exist", raw>>>>, FALSE)[1].msg,
            json |-> JsonPairs(<<<<"files_exist", raw>>>>, FALSE)[1][2]]>>
    /\ UNCHANGED <<raw, release_mode_arg, md_fn, json_fn, environ, repo_head,
                   yml_file, yaml_file, release_mode, lint_tests, git_sha,
                   lint_config, passed, warned, failed, ignored, idx, calls,
                   log, console, md_file, json_file, clock, returned, exc>>

NextStrip == StripAnsiCodes

\* A lint object on which nothing ran, and a string to strip.
InitStrip ==
    /\ pc = "strip"
    /\ raw \in Strings(MaxLen)
    /\ stripped = <<>>
    /\ release_mode_arg = FALSE
    /\ md_fn = FALSE
    /\ json_fn = FALSE
    /\ environ = <<>>
    /\ repo_head = NoSha
    /\ yml_file = Absent
    /\ yaml_file = Absent
    /\ release_mode = FALSE
    /\ lint_tests = LintTests(FALSE)
    /\ git_sha = NoSha
    /\ lint_config = EmptyDict
    /\ passed = <<>>
    /\ warned = <<>>
    /\ failed = <<>>
    /\ ignored = <<>>
    /\ idx = 1
    /\ calls = <<>>
    /\ log = {}
    /\ console = <<>>
    /\ md_file = <<>>
    /\ json_file = <<>>
    /\ clock = FrozenClock
    /\ returned = "none"
    /\ exc = "none"

SpecStrip == InitStrip /\ [][NextStrip]_vars


\* Runs over the two override files, each there or not.
InitConfig ==
    InitWith({FALSE}, {TRUE}, {<<>>}, {ShaD},
             {Absent, Unparseable, DictFile(SkipEnds)},
             {Absent, DictFile(SkipMiddle)}, {FrozenClock})

SpecConfig == InitConfig /\ [][Next]_vars


\* An override mapping with the values a key can have besides false: true,
\* the falsy values 0, {} and null, and a per-check configuration.
PerCheckValues ==
    [k \in {"files_exist", "licence", "docker", "nextflow_config",
            "actions_ci", "readme"} |->
        CASE k = "files_exist" -> "0"
          [] k = "licence" -> "{}"
          [] k = "docker" -> "None"
          [] k = "nextflow_config" -> "True"
          [] k = "actions_ci" -> "config"
          [] OTHER -> "False"]

\* Runs over the values of the override mapping.
InitValues ==
    InitWith({FALSE}, {TRUE}, {<<>>}, {ShaD},
             {DictFile(PerCheckValues), DictFile(SkipEnds)},
             {Absent}, {FrozenClock})

SpecValues == InitValues /\ [][Next]_vars


\* ------------------------------------------------------------- the claims
\* The names of the checks invoked so far, in the order of the calls.
InvokedNames == [i \in DOMAIN calls |-> calls[i].name]

\* The names of the entries of a bucket.
NamesIn(bucket) == {bucket[i][1] : i \in DOMAIN bucket}

\* The position of a name in the registry.
Pos(name) == CHOOSE i \in DOMAIN lint_tests : lint_tests[i] = name

\* The override mapping gives the name the value false.
OverriddenFalse(name) ==
    /\ lint_config.kind = "dict"
    /\ name \in DOMAIN lint_config.map
    /\ lint_config.map[name] = "False"

\* How often a name is the first component of an entry of a bucket.
Count(bucket, name) == Cardinality({i \in DOMAIN bucket : bucket[i][1] = name})

\* A check of this run raised AssertionError.
Aborted == \E i \in DOMAIN calls : calls[i].kind = "AssertionError"

\* C1: a check that raises an error other than the critical AssertionError
\* does not abort the run: one failed entry attributed to it is recorded,
\* every later check that is not skipped is still invoked, and run_linting
\* returns the lint object with the failure signal true.
C1_NonCriticalErrorIsRecorded ==
    \A i \in DOMAIN calls :
        calls[i].kind = "Exception" =>
            /\ Count(failed, calls[i].name) = 1
            /\ returned # "exception"
            /\ pc = "done" =>
                 /\ returned = "lint_obj"
                 /\ FailureSignal
                 /\ \A n \in Range(lint_tests) :
                      (Pos(n) > Pos(calls[i].name) /\ ~OverriddenFalse(n))
                          => n \in Range(InvokedNames)

\* C2, as stated: after every run, each registered name overridden to false
\* is in ignored exactly once, as the pair (N, N), and was never invoked.
C2_IgnoredAfterEveryRun ==
    pc = "done" =>
        \A n \in Range(lint_tests) :
            OverriddenFalse(n) =>
                /\ Count(ignored, n) = 1
                /\ \A i \in DOMAIN ignored : ignored[i][1] = n => ignored[i] = <<n, n>>
                /\ n \notin Range(InvokedNames)

\* C2, amended: a registered name overridden to false is never invoked; it is
\* in ignored exactly once, as the pair (N, N), as soon as the loop has moved
\* past its position (so in every run that goes through the whole registry),
\* and not at all before that.
C2_IgnoredOncePassed ==
    \A n \in Range(lint_tests) :
        OverriddenFalse(n) =>
            /\ n \notin Range(InvokedNames)
            /\ Count(ignored, n) = (IF idx > Pos(n) THEN 1 ELSE 0)
            /\ \A i \in DOMAIN ignored : ignored[i][1] = n => ignored[i] = <<n, n>>

\* A run went through the whole registry with two checks overridden to false.
C2_Witness ==
    /\ pc = "done"
    /\ returned = "lint_obj"
    /\ idx > Len(lint_tests)
    /\ OverriddenFalse("files_exist")
    /\ OverriddenFalse("schema_params")
    /\ ignored = <<(<<"files_exist", "files_exist">>), (<<"schema_params", "schema_params">>)>>

\* C3: when a check raises AssertionError, it is the last check invoked, no
\* bucket holds an entry of a check that comes later in the registry, the
\* critical message is logged and run_linting has returned the lint object
\* without an exception.
C3_CriticalStopsTheRun ==
    \A i \in DOMAIN calls :
        calls[i].kind = "AssertionError" =>
            /\ i = Len(calls)
            /\ pc = "done"
            /\ returned = "lint_obj"
            /\ exc = "none"
            /\ \E r \in log : r.level = "critical"
            /\ \A n \in NamesIn(passed) \cup NamesIn(warned) \cup NamesIn(failed)
                        \cup NamesIn(ignored) \cup Range(InvokedNames) :
                    Pos(n) <= Pos(calls[i].name)

\* A check in the middle of the registry raised AssertionError after a check
\* was skipped and another returned a finding.
C3_Witness ==
    /\ Aborted
    /\ Len(calls) >= 2
    /\ Len(ignored) = 1
    /\ Len(passed) + Len(warned) + Len(failed) >= 1
    /\ idx < Len(lint_tests)

\* C4: once a report is rendered, the failed bucket is non-empty exactly
\* when the Markdown verdict is 'Failed', when has_tests_failed is true in
\* the JSON and when the failure signal read off the returned object is
\* true; otherwise the verdict is 'Passed', whatever the other buckets hold.
C4_VerdictsAgree ==
    /\ md_file # <<>> =>
         /\ (md_file[1].overall_result = "Failed :x:") = FailureSignal
         /\ (md_file[1].overall_result = "Passed :white_check_mark:") = ~FailureSignal
    /\ json_file # <<>> =>
         /\ json_file[1].has_tests_failed = FailureSignal
         /\ (json_file[1].markdown_result.overall_result = "Failed :x:") = FailureSignal
         /\ (json_file[1].markdown_result.overall_result = "Passed :white_check_mark:")
                = ~FailureSignal

\* A run that returned after writing both reports, with a failure, a warning
\* and an ignored check.
C4_Witness ==
    /\ pc = "done"
    /\ returned = "lint_obj"
    /\ md_file # <<>>
    /\ json_file # <<>>
    /\ Len(failed) = 1
    /\ Len(warned) = 1
    /\ Len(ignored) = 1

\* C5: in release mode version_consistency is registered, after the checks of
\* normal mode, and is invoked last unless overridden to false; in normal
\* mode it is not registered.
C5_ReleaseModeRegistersCheck ==
    pc # "init" =>
        /\ release_mode_arg =>
             /\ Len(lint_tests) = Len(NormalTests) + 1
             /\ lint_tests[Len(lint_tests)] = "version_consistency"
        /\ ~release_mode_arg => "version_consistency" \notin Range(lint_tests)
        /\ (release_mode_arg /\ pc = "done" /\ returned = "lint_obj" /\ ~Aborted
              /\ ~OverriddenFalse("version_consistency"))
             => (calls # <<>> /\ calls[Len(calls)].name = "version_consistency")

\* The override file is there and its content is not a mapping.
Malformed == ConfigFile.kind \in {"unparseable", "none", "list"}

\* C6: a malformed override file does not crash the run: a warning is
\* logged, a mapping is applied and the checks are run.
C6_MalformedConfigIsAdvisory ==
    Malformed =>
        /\ returned # "exception"
        /\ pc \notin {"init", "parse_lint_config"} =>
             /\ \E r \in log : r.level = "warn"
             /\ lint_config.kind = "dict"
        /\ pc = "done" => calls # <<>>

\* C7: after construction the commit identifier is the environment variable
\* when it is set, else the hash of HEAD when it can be read, else None, and
\* the constructor has raised nothing.
C7_CommitResolution ==
    pc # "init" =>
        /\ git_sha = (CASE environ # <<>> -> environ
                        [] environ = <<>> /\ repo_head # NoSha -> repo_head
                        [] OTHER -> NoSha)
        /\ pc = "parse_lint_config" => (returned = "none" /\ exc = "none")

\* Scenario E: the variable and HEAD are both there, the variable wins.
C7_Witness ==
    /\ pc = "parse_lint_config"
    /\ environ = ShaA
    /\ repo_head = ShaD
    /\ git_sha = ShaA

\* The entries that a call files under a key: none when the call raised or
\* when the key is absent from its result.
EntriesOf(call, key) ==
    IF call.kind = "returned" /\ key \in DOMAIN call.result
    THEN [i \in 1..Len(call.result[key]) |-> <<call.name, call.result[key][i]>>]
    ELSE <<>>

RECURSIVE Collected(_, _)
\* The entries of the first n calls under a key, call after call.
Collected(key, n) ==
    IF n = 0 THEN <<>> ELSE Collected(key, n - 1) \o EntriesOf(calls[n], key)

\* C8: each bucket is, call after call, the findings the returned results
\* hold under the key of that name, each paired with the name of its check
\* and in the order of the result; a result that lacks a key raises nothing.
C8_FindingsGoToTheirBucket ==
    /\ passed = Collected("passed", Len(calls))
    /\ warned = Collected("warned", Len(calls))
    /\ failed = Collected("failed", Len(calls))
    /\ (calls # <<>> /\ calls[Len(calls)].kind = "returned") => returned # "exception"

\* A check returned two warnings and nothing else, after a skipped check.
C8_Witness ==
    /\ pc = "done"
    /\ Len(ignored) >= 1
    /\ \E i \in DOMAIN calls :
         /\ calls[i].kind = "returned"
         /\ DOMAIN calls[i].result = {"warned"}
         /\ Len(calls[i].result["warned"]) = 2
         /\ warned = <<(<<calls[i].name, Message(1)>>), (<<calls[i].name, Message(2)>>)>>

IsPrefix(a, b) == Len(a) <= Len(b) /\ a = SubSeq(b, 1, Len(a))

\* The registry without the checks overridden to false.
NotOverridden == SelectSeq(lint_tests, LAMBDA n : ~OverriddenFalse(n))

\* C9: the checks invoked so far are the first ones, in registry order, of
\* the checks not overridden to false, none twice; a run that is not aborted
\* (it left the loop by its end, neither through the critical path nor
\* through an exception) has every registered check either invoked once or
\* in ignored once.
C9_RegistryOrder ==
    /\ IsPrefix(InvokedNames, NotOverridden)
    /\ Cardinality(Range(InvokedNames)) = Len(calls)
    /\ (pc = "done" /\ returned = "lint_obj" /\ ~Aborted) => idx > Len(lint_tests)
    /\ (pc # "init" /\ idx > Len(lint_tests)) =>
         /\ InvokedNames = NotOverridden
         /\ \A n \in Range(lint_tests) :
              Count(ignored, n) + Cardinality({i \in DOMAIN calls : calls[i].name = n}) = 1

\* A run went through the registry: two checks ignored, fifteen invoked.
C9_Witness ==
    /\ pc = "done"
    /\ returned = "lint_obj"
    /\ ~Aborted
    /\ Len(ignored) = 2
    /\ Len(calls) = 15
    /\ Len(passed) + Len(warned) + Len(failed) = 2

\* C10: a name in ignored was not invoked and is in none of passed, warned
\* and failed; a name in passed, warned or failed is not in ignored.
C10_IgnoredIsDisjoint ==
    /\ \A n \in NamesIn(ignored) :
         /\ n \notin Range(InvokedNames)
         /\ n \notin NamesIn(passed) \cup NamesIn(warned) \cup NamesIn(failed)
    /\ \A n \in NamesIn(passed) \cup NamesIn(warned) \cup NamesIn(failed) :
         n \notin NamesIn(ignored)

\* A skipped check next to checks with a passed and a failed finding.
C10_Witness ==
    /\ Len(ignored) >= 1
    /\ Len(passed) >= 1
    /\ Len(failed) >= 1

\* C11: the four buckets only grow at their end.  Over every step of a run
\* (the constructor, the loading of the overrides, a skipped check, a
\* returned result, the critical stop, the three renderers and the return)
\* each bucket before the step is a prefix of the bucket after it.
C11_BucketsAppendOnly ==
    [][/\ IsPrefix(passed, passed')
       /\ IsPrefix(warned, warned')
       /\ IsPrefix(failed, failed')
       /\ IsPrefix(ignored, ignored')]_vars

\* The renderers ran over buckets that grew twice: the passed bucket holds
\* the findings of two checks, after a check was skipped.
C11_Witness ==
    /\ pc = "done"
    /\ md_file # <<>>
    /\ json_file # <<>>
    /\ console # <<>>
    /\ Len(ignored) >= 1
    /\ Len(passed) = 2
    /\ passed[1][1] # passed[2][1]

\* The pairs of a sequence of the JSON object follow the entries of the
\* bucket: as many, in the same order, each with the name of its entry.
PairsFollow(pairs, bucket) ==
    /\ Len(pairs) = Len(bucket)
    /\ \A i \in DOMAIN bucket : Len(pairs[i]) = 2 /\ pairs[i][1] = bucket[i][1]

\* C12: the JSON object that is written holds, for each of passed, ignored,
\* warned and failed, the sequence of [name, message] pairs in bucket order,
\* the count of the bucket, and a boolean has_<bucket> that is true exactly
\* when the bucket is not empty.
C12_JsonHoldsEveryBucket ==
    json_file # <<>> =>
        LET j == json_file[1] IN
        /\ PairsFollow(j.tests_pass, passed)
        /\ PairsFollow(j.tests_ignored, ignored)
        /\ PairsFollow(j.tests_warned, warned)
        /\ PairsFollow(j.tests_failed, failed)
        /\ j.num_tests_pass = Len(passed)
        /\ j.num_tests_ignored = Len(ignored)
        /\ j.num_tests_warned = Len(warned)
        /\ j.num_tests_failed = Len(failed)
        /\ j.has_tests_pass = (Len(passed) > 0)
        /\ j.has_tests_warned = (Len(warned) > 0)
        /\ j.has_tests_failed = (Len(failed) > 0)
        /\ "has_tests_ignored" \in DOMAIN j
        /\ j.has_tests_ignored = (Len(ignored) > 0)

\* C13: the Markdown and the JSON renderer take their timestamp as an input
\* and read no clock: the Markdown written to md_fn and the Markdown
\* embedded in the JSON object, two renderings of the same buckets and the
\* same commit in one run, are identical, and date_run of the JSON object is
\* the timestamp of the Markdown embedded in it.
C13_RenderersReadNoClock ==
    (md_file # <<>> /\ json_file # <<>>) =>
        /\ json_file[1].date_run = json_file[1].markdown_result.run_at
        /\ md_file[1] = json_file[1].markdown_result

\* C14: stripping is idempotent: for every string, stripping the stripped
\* string gives the stripped string again.  The strings include the escape
\* character directly followed by a complete escape sequence and then by a
\* character that can end a two-character escape.
C14_StripIsIdempotent ==
    pc = "stripped" => stripped[1].twice = stripped[1].once

\* No position of s starts a match of the escape-sequence pattern.
NoEscapeSequence(s) == \A i \in DOMAIN s : MatchLen(s, i) = 0

\* C15: the text of a message as it is embedded in the Markdown report and
\* in the JSON sequences holds no escape sequence after the one stripping
\* pass of the renderer, and holds nothing in place of a removed sequence:
\* every character of the embedded text is a character of the message.
C15_EmbeddedTextHasNoEscape ==
    pc = "stripped" =>
        /\ NoEscapeSequence(stripped[1].json)
        /\ NoEscapeSequence(stripped[1].md)
        /\ Range(stripped[1].json) \subseteq Range(raw)
        /\ Range(stripped[1].md) \subseteq Range(raw)

\* _parse_lint_config has returned or raised.
Loaded == pc \notin {"init", "parse_lint_config"}

\* The override mapping is the one the file holds.
MappingOf(file) == lint_config = [kind |-> "dict", map |-> file.map]

\* What C16 says of the two files: .yml is read when it exists, whatever
\* .yaml holds, and .yaml is read when only .yaml exists.
FirstFileIsRead ==
    /\ (Loaded /\ yml_file.kind = "dict") => MappingOf(yml_file)
    /\ (Loaded /\ yml_file.kind = "unparseable") =>
         (exc = "YAMLError" /\ lint_config = EmptyDict)
    /\ (Loaded /\ yml_file.kind = "absent" /\ yaml_file.kind = "dict") =>
         MappingOf(yaml_file)

\* No override file exists.
NoOverrideFile == yml_file.kind = "absent" /\ yaml_file.kind = "absent"

\* C16 as claimed: the override mapping comes from the first file that
\* exists, .yml before .yaml; when neither exists the mapping is empty, the
\* loading raises nothing, and after the run every registered check has
\* been invoked.
C16_EveryCheckInvokedWithoutFile ==
    /\ FirstFileIsRead
    /\ (Loaded /\ NoOverrideFile) =>
         /\ lint_config = EmptyDict
         /\ exc \notin {"FileNotFoundError", "YAMLError", "TypeError"}
    /\ (pc = "done" /\ NoOverrideFile) =>
         Range(lint_tests) \subseteq Range(InvokedNames)

\* C16, amended: the override mapping comes from the first file that exists,
\* .yml before .yaml; when neither exists the mapping is empty, the loading
\* raises nothing and no check is skipped: the checks invoked are the first
\* ones of the registry, in its order, and they are all of them once the
\* loop has reached the end of the registry.
C16_FirstExistingFile ==
    /\ FirstFileIsRead
    /\ (Loaded /\ NoOverrideFile) =>
         /\ lint_config = EmptyDict
         /\ exc \notin {"FileNotFoundError", "YAMLError", "TypeError"}
         /\ ignored = <<>>
         /\ InvokedNames = SubSeq(lint_tests, 1, Len(calls))
         /\ idx > Len(lint_tests) => InvokedNames = lint_tests

\* Both files exist and the run went through the registry with the
\* mapping of .yml: its two skipped checks are in ignored.
C16_WitnessBothFiles ==
    /\ yml_file.kind = "dict"
    /\ yaml_file.kind = "dict"
    /\ pc = "done"
    /\ returned = "lint_obj"
    /\ NamesIn(ignored) = {"files_exist", "schema_params"}

\* No file exists and the run went through the whole registry.
C16_Witness ==
    /\ NoOverrideFile
    /\ pc = "done"
    /\ returned = "lint_obj"
    /\ InvokedNames = lint_tests

\* The keys of the override mapping that name no registered check.
UnknownKeys == DOMAIN lint_config.map \ Range(lint_tests)

\* The checks that would be invoked, in order, were key k not in the
\* override mapping.
InvokedWithout(k) ==
    SelectSeq(lint_tests,
              LAMBDA n : ~(n # k /\ DictGet(lint_config, n) = "False"))

\* C17: an override key that names no registered check is answered by a
\* warning in the log and by nothing else: the loading raises nothing, the
\* key is in none of the four buckets, no check of that name is invoked, and
\* the checks invoked are, in order, the ones invoked without the key; a run
\* in which no check raises goes through the registry and returns the lint
\* object.
C17_UnknownKeyOnlyWarns ==
    \A k \in UnknownKeys :
        Loaded =>
            /\ [level |-> "warn", msg |-> "unrecognised test name", arg |-> k] \in log
            /\ exc \notin {"FileNotFoundError", "YAMLError", "TypeError", "AttributeError"}
            /\ k \notin NamesIn(passed) \cup NamesIn(warned) \cup NamesIn(failed)
                          \cup NamesIn(ignored)
            /\ k \notin Range(InvokedNames)
            /\ IsPrefix(InvokedNames, InvokedWithout(k))
            /\ idx > Len(lint_tests) => InvokedNames = InvokedWithout(k)
            /\ (pc = "done" /\ \A i \in DOMAIN calls : calls[i].kind = "returned") =>
                 (returned = "lint_obj" /\ idx > Len(lint_tests))

\* A run with the key no_such_test in its override file went through the
\* registry and returned, with findings in the buckets.
C17_Witness ==
    /\ "no_such_test" \in UnknownKeys
    /\ pc = "done"
    /\ returned = "lint_obj"
    /\ idx > Len(lint_tests)
    /\ Len(calls) = 16
    /\ Len(passed) = 1
    /\ Len(failed) = 1

\* The four buckets with the glyph of their count line and the title of
\* their section of the details.
MdBuckets ==
    <<[glyph |-> "+", title |-> ":white_check_mark: Tests passed:", bucket |-> passed],
      [glyph |-> "#", title |-> ":grey_question: Tests ignored:", bucket |-> ignored],
      [glyph |-> "!", title |-> ":heavy_exclamation_mark: Test warnings:", bucket |-> warned],
      [glyph |-> "-", title |-> ":x: Test failures:", bucket |-> failed]>>

\* C18: in the Markdown that is written, the count block has a line for a
\* bucket exactly when the bucket is not empty, and the line carries the
\* count of that bucket; the details have a section for a bucket exactly
\* when it is not empty, with one bullet per entry of the bucket, in the
\* order of the bucket.
C18_MarkdownFollowsBuckets ==
    md_file # <<>> =>
        LET md == md_file[1] IN
        \A b \in DOMAIN MdBuckets :
            LET bucket == MdBuckets[b].bucket
                lines == {i \in DOMAIN md.counts : md.counts[i].glyph = MdBuckets[b].glyph}
                sections == {i \in DOMAIN md.details : md.details[i].title = MdBuckets[b].title}
            IN  /\ Cardinality(lines) = IF Len(bucket) > 0 THEN 1 ELSE 0
                /\ \A i \in lines : md.counts[i].n = Len(bucket)
                /\ Cardinality(sections) = IF Len(bucket) > 0 THEN 1 ELSE 0
                /\ \A i \in sections :
                     /\ Len(md.details[i].bullets) = Len(bucket)
                     /\ \A e \in DOMAIN bucket :
                          md.details[i].bullets[e].eid = bucket[e][1]

\* A report over two buckets with entries and two without: one skipped
\* check, one finding that passed, none that warned or failed.
C18_Witness ==
    /\ md_file # <<>>
    /\ Len(md_file[1].counts) = 2
    /\ Len(md_file[1].details) = 2
    /\ Len(ignored) = 1
    /\ Len(passed) = 1
    /\ warned = <<>>
    /\ failed = <<>>

\* C19: the Markdown that is written has the commit line exactly when
\* git_sha is not None, and the line shows the first 7 characters of
\* git_sha; with git_sha None the report is written all the same, without
\* the line, and nothing is raised.
C19_CommitLine ==
    /\ md_file # <<>> =>
         LET md == md_file[1] IN
         /\ md.commit # <<>> <=> git_sha # NoSha
         /\ git_sha # NoSha =>
              /\ Len(md.commit) = 1
              /\ Len(md.commit[1]) = 7
              /\ \A i \in 1..7 : md.commit[1][i] = git_sha[i]
    /\ (md_fn /\ pc \in {"save_json", "exit_code"}) =>
         (md_file # <<>> /\ exc = "none")

\* No commit was resolved and the report was written, with its verdict and
\* its count line and without the commit line.
C19_Witness ==
    /\ git_sha = NoSha
    /\ pc = "done"
    /\ returned = "lint_obj"
    /\ md_file # <<>>
    /\ md_file[1].commit = <<>>
    /\ md_file[1].overall_result = "Failed :x:"
    /\ Len(md_file[1].counts) >= 1

\* The position in the registry of the check that raised AssertionError.
CriticalPos == Pos(calls[Len(calls)].name)

\* The checks before position p that the override mapping skips, as the
\* entries the loop records for them.
SkippedBefore(p) ==
    LET names == SelectSeq(SubSeq(lint_tests, 1, p - 1), OverriddenFalse)
    IN  [i \in DOMAIN names |-> <<names[i], names[i]>>]

\* C20: after a check raised AssertionError, run_linting has returned the
\* lint object and rendered nothing: no table printed, no Markdown and no
\* JSON written, whether or not the paths were given.  The object holds all
\* that was recorded before: the findings of the checks that returned and
\* the entries of the checks skipped before the critical one.
C20_CriticalPathRendersNothing ==
    Aborted =>
        /\ pc = "done"
        /\ returned = "lint_obj"
        /\ console = <<>>
        /\ md_file = <<>>
        /\ json_file = <<>>
        /\ passed = Collected("passed", Len(calls) - 1)
        /\ warned = Collected("warned", Len(calls) - 1)
        /\ failed = Collected("failed", Len(calls) - 1)
        /\ ignored = SkippedBefore(CriticalPos)

\* Both paths were given, a check was skipped, two checks returned a
\* finding each, and a later check raised AssertionError.
C20_Witness ==
    /\ Aborted
    /\ md_fn
    /\ json_fn
    /\ Len(ignored) = 1
    /\ Len(passed) = 1
    /\ Len(warned) = 1
    /\ Len(calls) >= 3

\* C21: a check is skipped only when its override value is false.  A check
\* whose override is true, 0, {}, null, a per-check configuration, or absent
\* is never in ignored, and it has been invoked once the loop has moved past
\* its position in the registry.
C21_OnlyFalseSkips ==
    \A p \in DOMAIN lint_tests :
        ~OverriddenFalse(lint_tests[p]) =>
            /\ lint_tests[p] \notin NamesIn(ignored)
            /\ p < idx => lint_tests[p] \in Range(InvokedNames)

\* A run went through the registry with the overrides 0, {}, null, true and
\* a configuration: their five checks were invoked, the one check
\* overridden to false is the only entry of ignored.
C21_Witness ==
    /\ pc = "done"
    /\ returned = "lint_obj"
    /\ idx > Len(lint_tests)
    /\ lint_config.kind = "dict"
    /\ {"files_exist", "licence", "docker"} \subseteq DOMAIN lint_config.map
    /\ lint_config.map["files_exist"] = "0"
    /\ lint_config.map["licence"] = "{}"
    /\ lint_config.map["docker"] = "None"
    /\ {"files_exist", "licence", "docker", "nextflow_config", "actions_ci"}
          \subseteq Range(InvokedNames)
    /\ NamesIn(ignored) = {"readme"}

\* The names of the checks whose call raised.
RaisedNames == {calls[i].name : i \in {j \in DOMAIN calls : calls[j].kind # "returned"}}

\* C22: the findings of a check reach the buckets only after the check has
\* returned: a check whose call raised, AssertionError or another exception,
\* has no entry in passed, warned or failed, and the buckets hold what the
\* calls before it returned and nothing else.
C22_RaisingCheckRecordsNothing ==
    /\ \A n \in RaisedNames :
         n \notin NamesIn(passed) \cup NamesIn(warned) \cup NamesIn(failed)
    /\ RaisedNames # {} =>
         /\ Len(passed) = Len(Collected("passed", Len(calls) - 1))
         /\ Len(warned) = Len(Collected("warned", Len(calls) - 1))
         /\ Len(failed) = Len(Collected("failed", Len(calls) - 1))

\* Two checks returned a finding each, then one raised an exception that is
\* not AssertionError.
C22_Witness ==
    /\ Len(calls) >= 3
    /\ calls[Len(calls)].kind = "Exception"
    /\ Len(passed) = 1
    /\ Len(failed) = 1
    /\ pc = "done"

====
